---- MODULE Spec2Model ----
(***************************************************************************)
(* Model of az-vm-zone-migration.py: the per-row migration loop of main()  *)
(* and the provider calls it makes.  Every call to the compute client is   *)
(* one step; its answer (a value or a raised exception) is chosen by the   *)
(* provider, i.e. nondeterministically.                                    *)
(*                                                                         *)
(* read_csv's list is walked once, front to back, and a row is not looked  *)
(* at before the loop takes it: the model keeps the list's length and      *)
(* fixes each row's content when the loop reaches it.                      *)
(*                                                                         *)
(* Domain of the model: VMs with managed disks (the only kind the script   *)
(* addresses: it reads os_disk.managed_disk.id of every VM it finds), with *)
(* disk names that are distinct within one VM, and a wall clock that does  *)
(* not run backwards.                                                      *)
(***************************************************************************)
EXTENDS Integers, Sequences, FiniteSets, TLC

\* ---------------------------------------------------------------- bounds
MaxRows == 2        \* rows of the CSV file
MaxDataDisks == 2   \* data disks of a VM
MaxClock == 0       \* seconds the clock can advance while one row is processed
MaxCatalog == 1     \* entries of the size catalog

\* ------------------------------------------------------------ value sets
Zones == {"1", "2"}
Locations == {"eastus", "westus"}
SkuNames == {"Standard_D2s_v3", "Standard_B1s"}

\* The script's source side is one VM; the destination is the same VM
\* (migration in place) or another resource group and name.
Sources == {<<"rg1", "vm1">>}
Destinations == {<<"rg1", "vm1">>, <<"rg2", "vm2">>}

\* One row of csv_data, as main() unpacks it.
Rows ==
    { [source_rg |-> s[1], source_vm |-> s[2],
       desired_rg |-> d[1], desired_vm |-> d[2], desired_zone |-> z] :
        s \in Sources, d \in Destinations, z \in Zones }

SeqsUpTo(S, n) == UNION { [1..k -> S] : k \in 0..n }

\* Disk k of a VM: 0 is the OS disk, 1.. are the data disks in order.
Disk(k) == [name |-> <<"disk", k>>, id |-> <<"/disks", k>>]

NicId == "/nics/nic0"

\* The VM objects virtual_machines.get can return.  zones is None for a
\* regional VM (zones_none), else a list.
VmObjects ==
    { [is_none |-> FALSE, zones_none |-> zn[1], zones |-> zn[2],
       location |-> "eastus", vm_size |-> "Standard_D2s_v3",
       os_disk |-> Disk(0),
       data_disks |-> [k \in 1..n |-> Disk(k)],
       network_interfaces |-> nics] :
        zn \in {<<TRUE, <<>> >>, <<FALSE, <<>> >>} \cup { <<FALSE, <<z>> >> : z \in Zones },
        n \in 0..MaxDataDisks,
        nics \in {<<>>, <<NicId>>} }

\* Python's None in the variable vm.
NoneVm ==
    [is_none |-> TRUE, zones_none |-> TRUE, zones |-> <<>>,
     location |-> "", vm_size |-> "",
     os_disk |-> Disk(0), data_disks |-> <<>>, network_interfaces |-> <<>>]

VARIABLES
    csv_len,        \* len(csv_data), the number of rows read_csv returned
    check_only,     \* --check
    i,              \* rows the for loop has taken so far
    row,            \* the loop variable: csv_data[i], fixed when the loop takes it
    pc,             \* position of main()
    vm,             \* result of check_vm_exists for row
    locals,         \* os_disk_id, data_disks, network_interface_id, vm_size
    delete_operation, \* the poller of begin_delete for row
    now,            \* datetime.now(), in seconds since the row was taken
    calls,          \* provider calls made for row, in order
    logs,           \* WARNING and ERROR lines written for row
    outcome,        \* how row ended, or "running"
    deleted_disks,  \* provider side: disks of row's VM deleted together with it
    stale_reads,    \* source lines that read vm after a mutating call for row
    cloud,          \* two concurrent runs: the provider's state of the row's VM
    runs            \* two concurrent runs: each run's position and its variable vm

vars == <<csv_len, check_only, i, row, pc, vm, locals, delete_operation,
          now, calls, logs, outcome, deleted_disks, stale_reads, cloud, runs>>

\* The variables of the two concurrent runs; one run alone leaves them as
\* they are.
race_vars == <<cloud, runs>>

\* Two invocations of the script.
Runs == {"run1", "run2"}

NoCloud == [exists |-> FALSE, zones |-> <<>>, created_by |-> "nothing"]

\* A run before its first statement.
IdleRun == [pc |-> "loop", vm |-> NoneVm, seen |-> "nothing", deleted |-> "nothing"]

NoRow ==
    [source_rg |-> "", source_vm |-> "", desired_rg |-> "", desired_vm |-> "",
     desired_zone |-> ""]

NoLocals ==
    [assigned |-> FALSE, os_disk_id |-> <<>>, data_disks |-> <<>>,
     network_interface_id |-> "", vm_size |-> ""]

Init ==
    /\ csv_len \in 0..MaxRows
    /\ check_only \in BOOLEAN
    /\ i = 0
    /\ row = NoRow
    /\ pc = "loop"
    /\ vm = NoneVm
    /\ locals = NoLocals
    /\ delete_operation = "none"
    /\ now = 0
    /\ calls = <<>>
    /\ logs = <<>>
    /\ outcome = "none"
    /\ deleted_disks = {}
    /\ stale_reads = {}
    /\ cloud = NoCloud
    /\ runs = [r \in Runs |-> IdleRun]

\* --------------------------------------------------------------- helpers
Log(level, what) == [level |-> level, what |-> what]

\* Elements of a sequence.
Range(s) == { s[k] : k \in 1..Len(s) }

\* What virtual_machines.get can do.
GetResponses ==
    { [raised |-> "no", vm |-> v] : v \in VmObjects }
        \cup { [raised |-> e, vm |-> NoneVm] : e \in {"ResourceNotFound", "other"} }

\* check_vm_exists catching ResourceNotFound only: another error escapes.
check_vm_exists_reraising(resp) ==
    [raises |-> resp.raised = "other",
     vm |-> IF resp.raised = "no" THEN resp.vm ELSE NoneVm,
     logs |-> IF resp.raised = "ResourceNotFound"
                THEN <<Log("WARNING", "vm not found")>> ELSE <<>>]

\* check_vm_exists: the VM, or None when get raised; every exception is
\* caught, so the function itself never raises.
check_vm_exists(resp) ==
    [raises |-> FALSE,
     vm |-> IF resp.raised = "no" THEN resp.vm ELSE NoneVm,
     logs |-> IF resp.raised = "no" THEN <<>>
              ELSE IF resp.raised = "ResourceNotFound"
                THEN <<Log("WARNING", "vm not found")>>
                ELSE <<Log("ERROR", "error checking vm")>>]

\* for row in csv_data: unpack the row and check_vm_exists; a None result
\* falls through to the next row.
NextRow ==
    /\ pc = "loop"
    /\ i < csv_len
    /\ \E next_row \in Rows, resp \in GetResponses :
        LET r == check_vm_exists(resp) IN
        /\ i' = i + 1
        /\ row' = next_row
        /\ vm' = r.vm
        /\ calls' = << [op |-> "get", rg |-> next_row.source_rg,
                        vm |-> next_row.source_vm,
                        ok |-> resp.raised = "no"] >>
        /\ logs' = r.logs
        /\ delete_operation' = "none"
        /\ now' = 0
        /\ deleted_disks' = {}
        /\ stale_reads' = {}
        /\ IF r.raises
             THEN pc' = "crashed" /\ outcome' = "running"
             ELSE IF r.vm.is_none
               THEN pc' = "loop" /\ outcome' = "skipped"
               ELSE pc' = "zone_check" /\ outcome' = "running"
    /\ UNCHANGED <<csv_len, check_only, locals>>
    /\ UNCHANGED race_vars

\* The zone comparison testing the wrong thing: never the same zone.
same_zone_never(desired_zone, zones) == FALSE

\* desired_zone in vm.zones, for a VM whose zones is a list.
same_zone(desired_zone, zones) == desired_zone \in Range(zones)

\* Lines 258-267: the zone comparison and the --check exit.  The `in` test
\* on zones = None raises TypeError, which nothing catches.
ZoneCheck ==
    /\ pc = "zone_check"
    /\ IF vm.zones_none
         THEN /\ pc' = "crashed"
              /\ UNCHANGED <<logs, outcome>>
         ELSE IF same_zone(row.desired_zone, vm.zones)
           THEN /\ pc' = "loop"
                /\ logs' = Append(logs, Log("WARNING", "same zone"))
                /\ outcome' = "skipped"
           ELSE IF check_only
             THEN /\ pc' = "loop"
                  /\ outcome' = "skipped"
                  /\ UNCHANGED logs
             ELSE /\ pc' = "capacity"
                  /\ UNCHANGED <<logs, outcome>>
    /\ UNCHANGED <<csv_len, check_only, i, row, vm, locals, delete_operation,
                   now, calls, deleted_disks, stale_reads>>
    /\ UNCHANGED race_vars

\* One entry of resource_skus.list().
SkuEntries == [name : SkuNames, locations : SUBSET Locations]

\* What resource_skus.list() can do: yield the catalog, or raise after
\* having yielded some of it.
SkuResponses ==
    { [skus |-> c, yielded |-> n, raises |-> r] :
        c \in SeqsUpTo(SkuEntries, MaxCatalog), n \in 0..MaxCatalog, r \in BOOLEAN }

SkuResponseOk(resp) ==
    /\ resp.yielded <= Len(resp.skus)
    /\ ~resp.raises => resp.yielded = Len(resp.skus)

\* is_sku_available: True at the first entry with the size's name that
\* lists the location; False at the end of the catalog and on any exception.
is_sku_available(resp, location, vm_size) ==
    \E j \in 1..resp.yielded :
        resp.skus[j].name = vm_size /\ location \in resp.skus[j].locations

\* The exception reaches is_sku_available's handler.
sku_lookup_raised(resp, location, vm_size) ==
    resp.raises /\ ~is_sku_available(resp, location, vm_size)

\* The capacity check failing open: an error counts as available.
check_sku_availability_fail_open(resp, location, vm_size) ==
    is_sku_available(resp, location, vm_size) \/ resp.raises

\* check_sku_availability: is_sku_available's answer (its own handler is
\* never reached, is_sku_available catching everything).
check_sku_availability(resp, location, vm_size) ==
    is_sku_available(resp, location, vm_size)

\* Lines 269-272: the capacity gate.
CapacityCheck ==
    /\ pc = "capacity"
    /\ \E resp \in SkuResponses :
        /\ SkuResponseOk(resp)
        /\ LET raised == sku_lookup_raised(resp, vm.location, vm.vm_size)
               available == check_sku_availability(resp, vm.location, vm.vm_size)
           IN
           /\ calls' = Append(calls, [op |-> "list_skus", ok |-> ~raised,
                                      available |-> available])
           /\ IF available
                THEN /\ pc' = "snapshot"
                     /\ logs' = logs \o (IF raised THEN <<Log("ERROR", "sku lookup")>> ELSE <<>>)
                     /\ UNCHANGED outcome
                ELSE /\ pc' = "loop"
                     /\ logs' = logs \o (IF raised THEN <<Log("ERROR", "sku lookup")>> ELSE <<>>)
                                     \o <<Log("WARNING", "size not available")>>
                     /\ outcome' = "skipped"
    /\ UNCHANGED <<csv_len, check_only, i, row, vm, locals, delete_operation, now,
                   deleted_disks, stale_reads>>
    /\ UNCHANGED race_vars

\* The OS disk followed by the data disks, the order main() snapshots them.
AllDisks(v) == <<v.os_disk>> \o v.data_disks

IsSnapshot(c) == c.op = "snapshot"
NumSnapshots == Len(SelectSeq(calls, IsSnapshot))

\* The snapshot name built from the timestamp alone.
snapshot_name_without_disk(disk_name, t) == <<"snapshot", t>>

\* "%s-%s" % (disk_name, now as YYYYmmddHHMMSS): the timestamp has a fixed
\* width, so the pair determines the name and the name the pair.
snapshot_name(disk_name, t) == <<disk_name, t>>

\* create_snapshot catching every exception.
create_snapshot_raises_never(raised) == FALSE

\* How create_snapshot ends for what begin_create_or_update did:
\* ResourceNotFoundError is caught and logged, anything else propagates.
create_snapshot_raises(raised) == raised \notin {"no", "ResourceNotFound"}

\* main() leaving the snapshot stage after the OS disk.
after_snapshot_os_disk_only(k, n) == "collect"

\* Where main() goes after the k-th of n snapshot calls returned.
after_snapshot(k, n) == IF k = n THEN "collect" ELSE "snapshot"

\* Lines 275-278: create_snapshot for the next disk; an exception leaving
\* create_snapshot is caught at line 283 and ends the process.
CreateSnapshot ==
    /\ pc = "snapshot"
    /\ LET k == NumSnapshots + 1
           disk == AllDisks(vm)[k]
       IN
       \E t \in now..(IF now < MaxClock THEN now + 1 ELSE now),
          raised \in {"no", "ResourceNotFound", "other"} :
        /\ now' = t
        /\ stale_reads' = stale_reads \cup (IF k > 1 THEN {278} ELSE {})
        /\ calls' = Append(calls,
                [op |-> "snapshot", rg |-> row.source_rg,
                 name |-> snapshot_name(disk.name, t),
                 disk_id |-> disk.id, location |-> vm.location,
                 sku |-> "Standard_ZRS", ok |-> raised = "no", raised |-> raised])
        /\ IF create_snapshot_raises(raised)
             THEN /\ pc' = "exit1"
                  /\ logs' = Append(logs, Log("ERROR", "error occurred"))
             ELSE /\ pc' = after_snapshot(k, Len(AllDisks(vm)))
                  /\ logs' = logs \o (IF raised = "no" THEN <<>>
                                      ELSE <<Log("ERROR", "disk not found")>>)
    /\ UNCHANGED <<csv_len, check_only, i, row, vm, locals, delete_operation, outcome,
                   deleted_disks>>
    /\ UNCHANGED race_vars

\* The collection of identifiers with an error boundary of its own: a
\* failure ends the row and the loop goes on.
CollectIds_skipping_row ==
    /\ pc = "collect"
    /\ stale_reads' = stale_reads \cup {279}
    /\ IF vm.network_interfaces = <<>>
         THEN /\ pc' = "loop"
              /\ logs' = Append(logs, Log("ERROR", "error occurred"))
              /\ UNCHANGED locals
         ELSE /\ pc' = "delete"
              /\ locals' = [assigned |-> TRUE,
                            os_disk_id |-> vm.os_disk.id,
                            data_disks |-> [k \in 1..Len(vm.data_disks) |-> vm.data_disks[k].id],
                            network_interface_id |-> vm.network_interfaces[1],
                            vm_size |-> vm.vm_size]
              /\ UNCHANGED logs
    /\ UNCHANGED <<csv_len, check_only, i, row, vm, delete_operation, now, calls, outcome,
                   deleted_disks>>
    /\ UNCHANGED race_vars

\* Lines 279-282: the identifiers kept for the recreation.  An empty
\* network_interfaces list raises IndexError, caught at line 283.
CollectIds ==
    /\ pc = "collect"
    /\ stale_reads' = stale_reads \cup {279}
    /\ IF vm.network_interfaces = <<>>
         THEN /\ pc' = "exit1"
              /\ logs' = Append(logs, Log("ERROR", "error occurred"))
              /\ UNCHANGED locals
         ELSE /\ pc' = "delete"
              /\ locals' = [assigned |-> TRUE,
                            os_disk_id |-> vm.os_disk.id,
                            data_disks |-> [k \in 1..Len(vm.data_disks) |-> vm.data_disks[k].id],
                            network_interface_id |-> vm.network_interfaces[1],
                            vm_size |-> vm.vm_size]
              /\ UNCHANGED logs
    /\ UNCHANGED <<csv_len, check_only, i, row, vm, delete_operation, now, calls, outcome,
                   deleted_disks>>
    /\ UNCHANGED race_vars

\* Where delete_vm goes once begin_delete returned its poller.
after_begin_delete == "delete_wait"

\* delete_vm, line 151: begin_delete on the source; an exception is not
\* caught anywhere.
BeginDelete ==
    /\ pc = "delete"
    /\ \E ok \in BOOLEAN :
        /\ calls' = Append(calls, [op |-> "delete", rg |-> row.source_rg,
                                   vm |-> row.source_vm, ok |-> ok])
        /\ delete_operation' = IF ok THEN "pending" ELSE "none"
        /\ pc' = IF ok THEN after_begin_delete ELSE "crashed"
    /\ stale_reads' = stale_reads \cup {287}
    /\ UNCHANGED <<csv_len, check_only, i, row, vm, locals, now, logs, outcome,
                   deleted_disks>>
    /\ UNCHANGED race_vars

\* The resource IDs of a VM's disks.
DiskIds(v) == { AllDisks(v)[k].id : k \in 1..Len(AllDisks(v)) }

\* What the provider can delete together with a VM: nothing (every disk is
\* detached), the OS disk, or every disk.
DeletedWithVm(v) == {{}, {v.os_disk.id}, DiskIds(v)}

\* delete_vm retrying a failed deletion.
after_delete_result_retrying(final) == IF final = "succeeded" THEN "create" ELSE "delete"

\* delete_vm swallowing a failed deletion.
after_delete_result_ignoring_failure(final) == "create"

\* Where main() goes when delete_operation.result() ends: it returns when the
\* deletion succeeded and raises when it failed.
after_delete_result(final) == IF final = "succeeded" THEN "create" ELSE "crashed"

\* delete_vm, line 152: wait for the deletion to complete.  The provider
\* detaches the VM's disks, or deletes with the VM those set to be deleted
\* with it.
DeleteResult ==
    /\ pc = "delete_wait"
    /\ \E final \in {"succeeded", "failed"}, gone \in DeletedWithVm(vm) :
        /\ delete_operation' = final
        /\ deleted_disks' = gone
        /\ final = "failed" => gone = {}
        /\ pc' = after_delete_result(final)
    /\ UNCHANGED <<csv_len, check_only, i, row, vm, locals, now, calls, logs, outcome,
                   stale_reads>>
    /\ UNCHANGED race_vars

\* create_vm attaching the data disks in reverse order.
create_request_reversed(zone, os_disk_id, data_disks, network_interface_id, vm_size, location) ==
    [location |-> location,
     os_disk |-> [id |-> os_disk_id, create_option |-> "Attach"],
     data_disks |-> [k \in 1..Len(data_disks) |->
                        [id |-> data_disks[Len(data_disks) + 1 - k],
                         create_option |-> "Attach"]],
     vm_size |-> vm_size,
     network_interfaces |-> <<network_interface_id>>,
     zones |-> <<zone>>]

\* The body create_vm sends to begin_create_or_update.
create_request(zone, os_disk_id, data_disks, network_interface_id, vm_size, location) ==
    [location |-> location,
     os_disk |-> [id |-> os_disk_id, create_option |-> "Attach"],
     data_disks |-> [k \in 1..Len(data_disks) |->
                        [id |-> data_disks[k], create_option |-> "Attach"]],
     vm_size |-> vm_size,
     network_interfaces |-> <<network_interface_id>>,
     zones |-> <<zone>>]

\* create_vm without its handler: every error of the submission escapes.
create_vm_raises_on_any_error(raised) == raised # "no"

\* create_vm catches ResourceExistsError only.
create_vm_raises(raised) == raised \notin {"no", "SkuNotAvailable", "ResourceExists"}

\* Line 288: create_vm on the destination.
CreateVm ==
    /\ pc = "create"
    /\ \E raised \in {"no", "SkuNotAvailable", "ResourceExists", "other"} :
        /\ calls' = Append(calls,
                [op |-> "create", rg |-> row.desired_rg, vm |-> row.desired_vm,
                 request |-> create_request(row.desired_zone, locals.os_disk_id,
                                            locals.data_disks,
                                            locals.network_interface_id,
                                            locals.vm_size, vm.location),
                 ok |-> raised = "no", raised |-> raised])
        /\ pc' = IF create_vm_raises(raised) THEN "crashed" ELSE "start"
        /\ stale_reads' = stale_reads \cup {288}
        /\ logs' = logs \o (IF raised = "SkuNotAvailable"
                              THEN <<Log("WARNING", "size not available")>>
                              ELSE IF raised = "ResourceExists"
                                THEN <<Log("ERROR", "error creating vm")>>
                                ELSE <<>>)
    /\ UNCHANGED <<csv_len, check_only, i, row, vm, locals, delete_operation, now, outcome,
                   deleted_disks>>
    /\ UNCHANGED race_vars

\* Lines 289-291: start_vm on the destination; an exception is not caught.
StartVm ==
    /\ pc = "start"
    /\ \E ok \in BOOLEAN :
        /\ calls' = Append(calls, [op |-> "start", rg |-> row.desired_rg,
                                   vm |-> row.desired_vm, ok |-> ok])
        /\ IF ok
             THEN pc' = "loop" /\ outcome' = "migrated"
                  /\ stale_reads' = stale_reads \cup {290}
             ELSE pc' = "crashed" /\ UNCHANGED <<outcome, stale_reads>>
    /\ UNCHANGED <<csv_len, check_only, i, row, vm, locals, delete_operation, now, logs,
                   deleted_disks>>
    /\ UNCHANGED race_vars

\* The for loop ends and main() returns.
LoopExit ==
    /\ pc = "loop"
    /\ i = csv_len
    /\ pc' = "finished"
    /\ UNCHANGED <<csv_len, check_only, i, row, vm, locals, delete_operation,
                   now, calls, logs, outcome, deleted_disks, stale_reads>>
    /\ UNCHANGED race_vars

Next ==
    \/ NextRow
    \/ ZoneCheck
    \/ CapacityCheck
    \/ CreateSnapshot
    \/ CollectIds
    \/ BeginDelete
    \/ DeleteResult
    \/ CreateVm
    \/ StartVm
    \/ LoopExit

Spec == Init /\ [][Next]_vars

\* main() is one thread that goes on whenever its current provider call
\* has returned or raised: some step is eventually taken while one is possible.
FairSpec == Spec /\ WF_vars(Next)

\* ------------------------------------------------- two concurrent runs
\* Two invocations of the script over the same CSV file of one row whose
\* destination is the source VM itself.  Each run executes main()'s
\* statements in order; the provider serves one call at a time, so a step is
\* one provider call with the local statements before the next one.  The
\* provider's answers follow from its state of the VM.

\* The VM the provider holds, as virtual_machines.get returns it.
CloudVm(zones) ==
    [is_none |-> FALSE, zones_none |-> FALSE, zones |-> zones,
     location |-> "eastus", vm_size |-> "Standard_D2s_v3",
     os_disk |-> Disk(0), data_disks |-> <<>>,
     network_interfaces |-> <<NicId>>]

\* virtual_machines.get on the provider's state.
CloudGet ==
    IF cloud.exists
      THEN [raised |-> "no", vm |-> CloudVm(cloud.zones)]
      ELSE [raised |-> "ResourceNotFound", vm |-> NoneVm]

RaceInit ==
    /\ csv_len = 1
    /\ check_only \in BOOLEAN
    /\ i = 1
    /\ row \in { r \in Rows : r.desired_rg = r.source_rg /\ r.desired_vm = r.source_vm }
    /\ pc = "loop"
    /\ vm = NoneVm
    /\ locals = NoLocals
    /\ delete_operation = "none"
    /\ now = 0
    /\ calls = <<>>
    /\ logs = <<>>
    /\ outcome = "none"
    /\ deleted_disks = {}
    /\ stale_reads = {}
    /\ \E zones \in {<<>>} \cup { <<z>> : z \in Zones } :
            cloud = [exists |-> TRUE, zones |-> zones, created_by |-> "original"]
    /\ runs = [r \in Runs |-> IdleRun]

seq_vars == <<csv_len, check_only, i, row, pc, vm, locals, delete_operation,
              now, calls, logs, outcome, deleted_disks, stale_reads>>

\* Line 256: check_vm_exists; None ends the only row and the run.
RaceInspect(r) ==
    /\ runs[r].pc = "loop"
    /\ LET res == check_vm_exists(CloudGet) IN
       runs' = [runs EXCEPT ![r] =
                    [@ EXCEPT !.vm = res.vm,
                              !.seen = cloud.created_by,
                              !.pc = IF res.vm.is_none THEN "finished" ELSE "zone_check"]]
    /\ UNCHANGED <<cloud, seq_vars>>

\* Lines 262-267: the zone comparison on the VM the run holds.
RaceZoneCheck(r) ==
    /\ runs[r].pc = "zone_check"
    /\ runs' = [runs EXCEPT ![r].pc =
                    IF same_zone(row.desired_zone, runs[r].vm.zones) THEN "finished"
                    ELSE IF check_only THEN "finished" ELSE "capacity"]
    /\ UNCHANGED <<cloud, seq_vars>>

\* Lines 270-272: the capacity gate.
RaceCapacityCheck(r) ==
    /\ runs[r].pc = "capacity"
    /\ \E resp \in SkuResponses :
        /\ SkuResponseOk(resp)
        /\ runs' = [runs EXCEPT ![r].pc =
                        IF check_sku_availability(resp, runs[r].vm.location,
                                                  runs[r].vm.vm_size)
                          THEN "snapshot" ELSE "finished"]
    /\ UNCHANGED <<cloud, seq_vars>>

\* Lines 275-278: the snapshot of the VM's only disk.
RaceCreateSnapshot(r) ==
    /\ runs[r].pc = "snapshot"
    /\ runs' = [runs EXCEPT ![r].pc = after_snapshot(1, Len(AllDisks(runs[r].vm)))]
    /\ UNCHANGED <<cloud, seq_vars>>

\* Lines 279-282: the identifiers, from the VM the run holds.
RaceCollectIds(r) ==
    /\ runs[r].pc = "collect"
    /\ runs' = [runs EXCEPT ![r].pc = "delete"]
    /\ UNCHANGED <<cloud, seq_vars>>

\* delete_vm, line 151: begin_delete by resource group and name, whatever
\* VM now bears the name; deleted records whose VM it was.
RaceBeginDelete(r) ==
    /\ runs[r].pc = "delete"
    /\ cloud' = NoCloud
    /\ runs' = [runs EXCEPT ![r] =
                    [@ EXCEPT !.deleted = cloud.created_by,
                              !.pc = after_begin_delete]]
    /\ UNCHANGED seq_vars

\* delete_vm, line 152: the deletion completed.
RaceDeleteResult(r) ==
    /\ runs[r].pc = "delete_wait"
    /\ runs' = [runs EXCEPT ![r].pc = after_delete_result("succeeded")]
    /\ UNCHANGED <<cloud, seq_vars>>

\* Line 288: begin_create_or_update creates the VM in the requested zone,
\* or leaves the one that exists in place.
RaceCreateVm(r) ==
    /\ runs[r].pc = "create"
    /\ LET request == create_request(row.desired_zone, runs[r].vm.os_disk.id, <<>>,
                                     runs[r].vm.network_interfaces[1],
                                     runs[r].vm.vm_size, runs[r].vm.location)
       IN cloud' = IF cloud.exists THEN cloud
                   ELSE [exists |-> TRUE, zones |-> request.zones, created_by |-> r]
    /\ runs' = [runs EXCEPT ![r].pc = "start"]
    /\ UNCHANGED seq_vars

\* Lines 289-290: start_vm; the row and the run are over.
RaceStartVm(r) ==
    /\ runs[r].pc = "start"
    /\ runs' = [runs EXCEPT ![r].pc = "finished"]
    /\ UNCHANGED <<cloud, seq_vars>>

RaceNext ==
    \E r \in Runs :
        \/ RaceInspect(r)
        \/ RaceZoneCheck(r)
        \/ RaceCapacityCheck(r)
        \/ RaceCreateSnapshot(r)
        \/ RaceCollectIds(r)
        \/ RaceBeginDelete(r)
        \/ RaceDeleteResult(r)
        \/ RaceCreateVm(r)
        \/ RaceStartVm(r)

RaceSpec == RaceInit /\ [][RaceNext]_vars

\* ------------------------------------------------------------ properties
HasCall(op) == \E k \in 1..Len(calls) : calls[k].op = op

IsMutating(c) == c.op \in {"snapshot", "delete", "create", "start"}

NoMutatingCall == \A k \in 1..Len(calls) : ~IsMutating(calls[k])

\* The run of main() is over: it returned, exited or died of an exception.
RunEnded == pc \in {"finished", "exit1", "crashed"}

\* The row is over and the loop goes on (or has ended normally).
RowDone == pc \in {"loop", "finished"} /\ i >= 1

LastCall == calls[Len(calls)]

\* C1: deleteVm is never invoked for a record while some disk of the source
\* VM lacks a successfully submitted snapshot request.
C1_DeleteOnlyWithEveryDiskSnapshotSubmitted ==
    HasCall("delete") =>
        \A d \in 1..Len(AllDisks(vm)) :
            \E k \in 1..Len(calls) :
                /\ calls[k].op = "snapshot"
                /\ calls[k].disk_id = AllDisks(vm)[d].id
                /\ calls[k].ok

\* C2: createVm is invoked only after deleteVm was invoked for the record and
\* its completion confirmed: never while the delete is pending or has failed.
C2_CreateOnlyAfterDeleteConfirmed ==
    \A k \in 1..Len(calls) :
        calls[k].op = "create" =>
            /\ delete_operation = "succeeded"
            /\ \E j \in 1..(k - 1) : calls[j].op = "delete" /\ calls[j].ok

C2_Witness == HasCall("create") /\ delete_operation = "succeeded"

\* The record's desired zone is one of the zones currently on the source VM.
DesiredZoneIsCurrent ==
    /\ ~vm.is_none
    /\ ~vm.zones_none
    /\ \E k \in 1..Len(vm.zones) : vm.zones[k] = row.desired_zone

\* C3: for a record whose desired zone is one of the source VM's current zones
\* no mutating call is made, the record ends as a skip without an ERROR line,
\* and the run goes on to the next record.
C3_SameZoneIsSkipped ==
    DesiredZoneIsCurrent =>
        /\ NoMutatingCall
        /\ \A k \in 1..Len(logs) : logs[k].level # "ERROR"
        /\ pc \in {"zone_check", "loop", "finished"}
        /\ pc # "zone_check" => outcome = "skipped"

C3_Witness ==
    /\ DesiredZoneIsCurrent
    /\ pc = "loop"
    /\ i < csv_len
    /\ outcome = "skipped"
    /\ logs = <<Log("WARNING", "same zone")>>

\* C4: in check-only mode the run makes no mutating call, and every record is
\* inspected: the run does not end before the last row was taken.
C4_CheckOnlyInspectsEveryRecord ==
    check_only =>
        /\ NoMutatingCall
        /\ RunEnded => i = csv_len

\* C5: the capacity check fails closed and gates the mutation: after a lookup
\* that answered 'not available' or raised, no mutating call is made for the
\* record and the run goes on to the next record; a snapshot request is
\* issued only after the lookup answered 'available'.
C5_CapacityCheckGatesMutation ==
    /\ \A k \in 1..Len(calls) :
        (calls[k].op = "list_skus" /\ (~calls[k].ok \/ ~calls[k].available)) =>
            /\ NoMutatingCall
            /\ pc \in {"loop", "finished"}
            /\ outcome = "skipped"
    /\ \A k \in 1..Len(calls) :
        calls[k].op = "snapshot" =>
            \E j \in 1..(k - 1) : calls[j].op = "list_skus" /\ calls[j].available

C5_Witness ==
    /\ pc = "loop"
    /\ i < csv_len
    /\ Len(calls) >= 1
    /\ LastCall.op = "list_skus"
    /\ ~LastCall.ok

\* The snapshot requests of the record, in the order they were issued.
Snapshots == SelectSeq(calls, IsSnapshot)

\* Requests issued for disk d of the source VM.
SnapshotsOf(d) ==
    { k \in 1..Len(Snapshots) : Snapshots[k].disk_id = AllDisks(vm)[d].id }

SnapshotNamesDistinct ==
    \A j, k \in 1..Len(Snapshots) : j # k => Snapshots[j].name # Snapshots[k].name

\* C6 as stated: once the first snapshot request was attempted, exactly one
\* request is issued for the OS disk and for each data disk, however the
\* submissions end, with pairwise distinct names.
C6_ExactlyOneSnapshotPerDiskAlways ==
    (HasCall("snapshot") /\ pc # "snapshot") =>
        /\ \A d \in 1..Len(AllDisks(vm)) : Cardinality(SnapshotsOf(d)) = 1
        /\ SnapshotNamesDistinct

\* C6 amended: the requests go out in disk order, at most one per disk and
\* with pairwise distinct names; every disk has exactly one request unless a
\* submission failed with an error other than ResourceNotFound, which ends
\* the run with the remaining disks not requested.
C6_OneSnapshotPerDiskUnlessAborted ==
    /\ Len(Snapshots) <= Len(AllDisks(vm))
    /\ \A k \in 1..Len(Snapshots) :
        /\ Snapshots[k].disk_id = AllDisks(vm)[k].id
        /\ Snapshots[k].rg = row.source_rg
    /\ SnapshotNamesDistinct
    /\ (HasCall("snapshot") /\ pc \notin {"snapshot", "exit1"}) =>
            \A d \in 1..Len(AllDisks(vm)) : Cardinality(SnapshotsOf(d)) = 1
    /\ (HasCall("snapshot") /\ pc # "snapshot" /\ Len(Snapshots) < Len(AllDisks(vm))) =>
            pc = "exit1" /\ LastCall.op = "snapshot" /\ ~LastCall.ok

\* Every disk requested, two of them within the same second, one submission
\* having failed with ResourceNotFound.
C6_Witness ==
    /\ pc = "delete"
    /\ Len(Snapshots) = Len(AllDisks(vm))
    /\ Len(Snapshots) >= 2
    /\ Snapshots[1].name[2] = Snapshots[2].name[2]
    /\ ~Snapshots[2].ok

\* C7: when deleteVm is invoked a snapshot request has been issued for the OS
\* disk and every data disk, and none is issued after the deleteVm call.
C7_SnapshotsBeforeDelete ==
    \A k \in 1..Len(calls) :
        calls[k].op = "delete" =>
            /\ \A d \in 1..Len(AllDisks(vm)) :
                \E j \in 1..(k - 1) :
                    calls[j].op = "snapshot" /\ calls[j].disk_id = AllDisks(vm)[d].id
            /\ \A j \in (k + 1)..Len(calls) : calls[j].op # "snapshot"

C7_Witness ==
    /\ HasCall("delete")
    /\ Len(vm.data_disks) >= 1
    /\ LastCall.op = "start"

\* C8: the createVm request attaches exactly the disks of the inspected VM:
\* the same OS disk ID, the same data disk IDs in the same order, every
\* reference attach-only, and the zone list holding the desired zone alone.
C8_CreateAttachesSourceDisks ==
    \A k \in 1..Len(calls) :
        calls[k].op = "create" =>
            LET req == calls[k].request IN
            /\ req.os_disk.id = vm.os_disk.id
            /\ req.os_disk.create_option = "Attach"
            /\ Len(req.data_disks) = Len(vm.data_disks)
            /\ \A d \in 1..Len(req.data_disks) :
                /\ req.data_disks[d].id = vm.data_disks[d].id
                /\ req.data_disks[d].create_option = "Attach"
            /\ req.zones = <<row.desired_zone>>

C8_Witness == HasCall("create") /\ Len(vm.data_disks) >= 2

\* The operations of the record, by name.
Ops == [k \in 1..Len(calls) |-> calls[k].op]

IsPrefix(s, t) == Len(s) <= Len(t) /\ \A k \in 1..Len(s) : s[k] = t[k]

\* The happy path of a VM with n disks.
HappyOps(n) ==
    <<"get", "list_skus">> \o [k \in 1..n |-> "snapshot"] \o <<"delete", "create", "start">>

\* The record's VM exists, its desired zone is not among the VM's zones, the
\* size is available, the run is not check-only and no provider call failed.
HappyRecord ==
    /\ ~check_only
    /\ i >= 1
    /\ ~vm.is_none
    /\ \A k \in 1..Len(vm.zones) : vm.zones[k] # row.desired_zone
    /\ \A k \in 1..Len(calls) : calls[k].ok
    /\ \A k \in 1..Len(calls) : calls[k].op = "list_skus" => calls[k].available
    /\ delete_operation # "failed"

\* C9: on the happy path the record's operations are one snapshot per disk,
\* one deleteVm on the source, one createVm and one startVm on the
\* destination, in that order, and the record ends DONE.
C9_HappyPathRunsEveryStage ==
    HappyRecord =>
        /\ ~RunEnded \/ pc = "finished"
        /\ IsPrefix(Ops, HappyOps(Len(AllDisks(vm))))
        /\ RowDone => /\ Ops = HappyOps(Len(AllDisks(vm)))
                      /\ outcome = "migrated"
        /\ \A k \in 1..Len(calls) :
            /\ calls[k].op = "delete" =>
                 calls[k].rg = row.source_rg /\ calls[k].vm = row.source_vm
            /\ calls[k].op \in {"create", "start"} =>
                 calls[k].rg = row.desired_rg /\ calls[k].vm = row.desired_vm

C11_CreateReferencesOnlySurvivingDisks ==
    \A k \in 1..Len(calls) :
        calls[k].op = "create" =>
            LET req == calls[k].request IN
            /\ req.os_disk.id \notin deleted_disks
            /\ \A d \in 1..Len(req.data_disks) : req.data_disks[d].id \notin deleted_disks

\* C12 as stated: no createVm failure is propagated; whatever the error,
\* startVm is still invoked for the record.
C12_CreateFailureNeverPropagates ==
    \A k \in 1..Len(calls) :
        (calls[k].op = "create" /\ ~calls[k].ok) =>
            pc = "start" \/ HasCall("start")

\* C12 amended: a createVm failure raised as ResourceExistsError (of the
\* SkuNotAvailable class or not) is swallowed and startVm is still invoked;
\* any other error of the submission propagates and ends the run without
\* startVm.
C12_OnlyResourceExistsErrorIsSwallowed ==
    \A k \in 1..Len(calls) :
        calls[k].op = "create" =>
            /\ calls[k].raised \in {"SkuNotAvailable", "ResourceExists"} =>
                    pc = "start" \/ HasCall("start")
            /\ calls[k].raised = "other" =>
                    pc = "crashed" /\ k = Len(calls)

C12_Witness ==
    /\ HasCall("start")
    /\ \E k \in 1..Len(calls) :
        calls[k].op = "create" /\ calls[k].raised = "ResourceExists"

\* C13: a startVm failure is not escalated: the record is complete and the
\* run goes on with the later records.
C13_StartFailureNotEscalated ==
    \A k \in 1..Len(calls) :
        (calls[k].op = "start" /\ ~calls[k].ok) => pc \in {"loop", "finished"}

\* The deleteVm invocations of the record.
IsDelete(c) == c.op = "delete"
Deletes == SelectSeq(calls, IsDelete)

\* C14: deleteVm is invoked at most once per record, and when it fails
\* neither createVm nor startVm is invoked for the record.
C14_DeleteFailureIsFatalNoRetry ==
    /\ Len(Deletes) <= 1
    /\ (delete_operation = "failed" \/ (Len(Deletes) = 1 /\ ~Deletes[1].ok)) =>
            /\ ~HasCall("create")
            /\ ~HasCall("start")
            /\ pc = "crashed"

C14_Witness ==
    /\ Len(Deletes) = 1
    /\ delete_operation = "failed"
    /\ pc = "crashed"

\* The collection of identifiers ran for the record and failed: the VM has
\* no network interface.
CollectFailed ==
    /\ ~vm.is_none
    /\ vm.network_interfaces = <<>>
    /\ 279 \in stale_reads

\* C15: an unexpected failure while collecting the record's identifiers ends
\* the whole run: no deleteVm, createVm or startVm for the record and no
\* operation at all afterwards.
C15_CollectFailureEndsRun ==
    CollectFailed =>
        /\ pc = "exit1"
        /\ ~HasCall("delete") /\ ~HasCall("create") /\ ~HasCall("start")
        /\ ~ENABLED Next

C15_Witness ==
    /\ CollectFailed
    /\ i < csv_len
    /\ \A k \in 1..Len(calls) : calls[k].ok

\* The stage of the per-record state machine a position of main() is in;
\* INSPECT (1) is the step that takes the row.
StageRank(p) ==
    CASE p = "zone_check" -> 2
      [] p = "capacity" -> 3
      [] p \in {"snapshot", "collect"} -> 4
      [] p \in {"delete", "delete_wait"} -> 5
      [] p = "create" -> 6
      [] p = "start" -> 7
      [] OTHER -> 8

\* Steps that stay within a stage: the next disk of SNAPSHOT_ALL and the
\* wait of DELETE_SOURCE; and the end of the loop after the last record.
WithinStage(p, q) ==
    \/ p = "snapshot" /\ q \in {"snapshot", "collect"}
    \/ p = "delete" /\ q = "delete_wait"
    \/ p = "loop" /\ q = "finished"

\* One step of a sequential run: either the next row in input order is taken,
\* the previous one being DONE, or the current record moves forward.
SequentialStep ==
    /\ ~RunEnded
    /\ i' # i => /\ pc = "loop"
                 /\ i' = i + 1
                 /\ i' <= csv_len
    /\ i' = i => /\ StageRank(pc') >= StageRank(pc)
                 /\ StageRank(pc') = StageRank(pc) => WithinStage(pc, pc')
                 /\ row' = row

\* C16: the run is one sequential trace (rows in input order, each once, a
\* record DONE before the next starts, stages never going back and only
\* SNAPSHOT_ALL repeating), and, every provider call returning, it ends.
C16_SequentialAndTerminating ==
    /\ [][SequentialStep]_vars
    /\ <>RunEnded

C16_Witness ==
    /\ pc = "finished"
    /\ i = 2
    /\ outcome = "migrated"

\* The lines after SNAPSHOT_ALL at which main() reads the VM object that
\* check_vm_exists returned: vm.zones for delete_vm, vm.location for
\* create_vm, and the disk list for list_vm_disks.
ReadsAfterSnapshotStage == {287, 288, 290}

\* C17: once a mutating stage of a record has run, no later stage of that
\* record reads the VM object captured by the inspection.
C17_NoStaleVmReadInLaterStage ==
    HasCall("snapshot") => stale_reads \cap ReadsAfterSnapshotStage = {}

\* C19: a snapshot request failing with anything but ResourceNotFound is
\* the run's last call: no delete, no snapshot of the remaining disks, no
\* later record.  After a ResourceNotFound the record goes on, to the next
\* disk or to the collection of identifiers that precedes the delete; a
\* delete is reached only with every snapshot accepted or not found.
C19_SnapshotFailureAbortsBeforeDelete ==
    \A k \in 1..Len(calls) :
        calls[k].op = "snapshot" =>
            /\ calls[k].raised = "other" =>
                    /\ k = Len(calls)
                    /\ pc = "exit1"
                    /\ ~ENABLED Next
            /\ (calls[k].raised = "ResourceNotFound" /\ k = Len(calls)) =>
                        pc = (IF NumSnapshots < Len(AllDisks(vm)) THEN "snapshot"
                              ELSE IF 279 \notin stale_reads THEN "collect"
                              ELSE IF CollectFailed THEN "exit1" ELSE "delete")
            /\ HasCall("delete") => calls[k].raised \in {"no", "ResourceNotFound"}

C19_Witness ==
    /\ Len(calls) >= 2
    /\ LastCall.op = "snapshot"
    /\ LastCall.raised = "other"
    /\ NumSnapshots < Len(AllDisks(vm))
    /\ i < csv_len
    /\ pc = "exit1"

\* The variable vm holds a VM pinned to no zone: zones is None or empty.
PinnedToNoZone == ~vm.is_none /\ (vm.zones_none \/ vm.zones = <<>>)

\* C20: the record of a VM pinned to no zone is not skipped as being in the
\* desired zone and the zone comparison does not end the run: the record is
\* at the zone check, past it at the capacity check, or skipped by --check.
C20_UnzonedVmPassesZoneCheck ==
    (i >= 1 /\ PinnedToNoZone /\ Len(calls) = 1) =>
        \/ pc \in {"zone_check", "capacity"}
        \/ /\ pc = "loop"
           /\ check_only
           /\ Log("WARNING", "same zone") \notin Range(logs)

\* Run r deleted a VM that another run had created.
DeletedRecreatedVm(r) == runs[r].deleted \in Runs

\* Run r passed the existence and zone checks on the VM as it was before
\* any migration.
PassedChecksOnOriginal(r) ==
    /\ runs[r].seen = "original"
    /\ ~runs[r].vm.is_none
    /\ row.desired_zone \notin Range(runs[r].vm.zones)

\* C18: two concurrent runs over the same record are unsafe.  Nothing
\* holds a run back at the delete, whatever the VM has become since the
\* run inspected it; and a run deletes the VM another run has recreated in
\* the desired zone exactly in the read-then-act window, both runs having
\* passed their checks on the not-yet-migrated VM.
C18_ReadThenActRace ==
    \A r \in Runs :
        /\ runs[r].pc = "delete" => ENABLED RaceBeginDelete(r)
        /\ DeletedRecreatedVm(r) =>
                /\ runs[r].deleted # r
                /\ \A q \in Runs : PassedChecksOnOriginal(q)

C18_Witness ==
    \E r \in Runs :
        /\ DeletedRecreatedVm(r)
        /\ \A q \in Runs : PassedChecksOnOriginal(q)
        /\ cloud = NoCloud
====
